---- MODULE Spec2Model ----
(***************************************************************************)
(* Stock news sentiment dashboard.                                         *)
(*                                                                         *)
(* Two programs share the pipeline: the single-file app                    *)
(* (stock_sentiment_app.py, app = "mono") and the modular app (app/*.py,   *)
(* app = "modular").  A text is a sequence of symbols (a word or one       *)
(* blank); a float is an integer number of hundredths, a mean is an exact  *)
(* fraction.  TextBlob, the news provider and the web are black boxes:     *)
(* their answers are chosen nondeterministically, TextBlob's once per text.*)
(***************************************************************************)
EXTENDS Integers, Sequences, FiniteSets, TLC

VARIABLES app, pc, num_articles, provider, news_articles, idx, results,
          article_texts, blob, messages, netCalls, ret, text,
          prev, stable,
          ticker, displayed, ss_ticker, analysis_performed, branch, button, reruns

(* a first result kept for comparison, and whether the web answers a URL the
   same way every time *)
again == <<prev, stable>>

(* the page: the ticker typed, what is displayed, st.session_state, the
   branch main() took, the button, the number of reruns *)
page == <<ticker, displayed, ss_ticker, analysis_performed, branch, button, reruns>>

vars == <<app, pc, num_articles, provider, news_articles, idx, results,
          article_texts, blob, messages, netCalls, ret, text, again, page>>

----------------------------------------------------------------------------
(* Bounds of the model *)

MaxNews == 3

MaxCount == 3

MaxTextLen == 3

MaxPermNews == 2

----------------------------------------------------------------------------
(* Values *)

None == [none |-> TRUE]

Symbols == {"a", "b", " "}

Texts == UNION {[1..k -> Symbols] : k \in 0..MaxTextLen}

(* hundredths: polarity in [-1.0, 1.0], subjectivity in [0.0, 1.0] *)
Polarities == -100..100

Subjectivities == {0, 50, 100}

Scores == [polarity : Polarities, subjectivity : Subjectivities]

(* the answers of TextBlob tried in an analysis run *)
RunScores ==
  {[polarity |-> -100, subjectivity |-> 100],
   [polarity |-> -11, subjectivity |-> 50],
   [polarity |-> 0, subjectivity |-> 0],
   [polarity |-> 10, subjectivity |-> 50],
   [polarity |-> 100, subjectivity |-> 100]}

(* the answers of TextBlob tried when a run is repeated *)
AgainScores ==
  {[polarity |-> -100, subjectivity |-> 100],
   [polarity |-> 10, subjectivity |-> 50],
   [polarity |-> 100, subjectivity |-> 0]}

Float0 == [num |-> 0, den |-> 1]

Min(a, b) == IF a < b THEN a ELSE b

Abs(a) == IF a < 0 THEN -a ELSE a

RECURSIVE GCD(_, _)
GCD(a, b) == IF b = 0 THEN a ELSE GCD(b, a % b)

Fraction(n, d) ==
  LET g == GCD(Abs(n), d) IN [num |-> n \div g, den |-> d \div g]

RECURSIVE SumColumn(_, _)
SumColumn(rows, col) ==
  IF rows = <<>> THEN 0 ELSE rows[1][col] + SumColumn(Tail(rows), col)

Get(d, key, default) == IF key \in DOMAIN d THEN d[key] ELSE default

----------------------------------------------------------------------------
(* analyze_sentiment *)

PosThreshold == 10

NegThreshold == 0 - 10

ClassifyInclusive(polarity) ==
  IF polarity >= PosThreshold THEN [sentiment |-> "Positive", emoji |-> "U+1F60A"]
  ELSE IF polarity <= NegThreshold THEN [sentiment |-> "Negative", emoji |-> "U+1F620"]
  ELSE [sentiment |-> "Neutral", emoji |-> "U+1F610"]

Classify(polarity) ==
  IF polarity > PosThreshold THEN [sentiment |-> "Positive", emoji |-> "U+1F60A"]
  ELSE IF polarity < NegThreshold THEN [sentiment |-> "Negative", emoji |-> "U+1F620"]
  ELSE [sentiment |-> "Neutral", emoji |-> "U+1F610"]

(* `if not text`: only the empty string is falsy *)
IsFalsyIfBlank(t) == \A i \in 1..Len(t) : t[i] = " "

IsFalsy(t) == t = <<>>

(* TextBlob(text).sentiment: the answer s is chosen at the first call on a
   text and repeated at every later call on the same text *)
Sentiment(memo, t, s) == IF t \in DOMAIN memo THEN memo[t] ELSE s

Consulted(memo, t, s) == IF t \in DOMAIN memo THEN memo ELSE memo @@ (t :> s)

AnalyzeSentiment(memo, t, s) ==
  IF IsFalsy(t)
  THEN [polarity |-> 0, subjectivity |-> 0, sentiment |-> "Neutral",
        emoji |-> "U+1F610", memo |-> memo]
  ELSE LET sc == Sentiment(memo, t, s)
           c  == Classify(sc.polarity)
       IN [polarity |-> sc.polarity, subjectivity |-> sc.subjectivity,
           sentiment |-> c.sentiment, emoji |-> c.emoji,
           memo |-> Consulted(memo, t, s)]

----------------------------------------------------------------------------
(* get_stock_news *)

ArtFull ==
  [title |-> <<"a">>, summary |-> <<"b">>, link |-> "u1",
   publisher |-> "Reuters", providerPublishTime |-> [int |-> 1700000000]]

ArtEmptyLink == [title |-> <<"b">>, link |-> "", providerPublishTime |-> [int |-> 1700000600]]

ArtBare == <<>>

ArticlePool == {ArtFull, ArtEmptyLink, ArtBare}

NewsLists == UNION {[1..k -> ArticlePool] : k \in 0..MaxNews}

ProviderOutcomes ==
  {[kind |-> "raise", news |-> <<>>], [kind |-> "none", news |-> <<>>]}
    \cup {[kind |-> "list", news |-> L] : L \in NewsLists}

Counts == 1..MaxCount

GetStockNewsPropagates(out, n) ==
  IF out.kind = "raise"
  THEN [news |-> <<>>, raised |-> TRUE, msgs |-> <<>>]
  ELSE IF out.kind = "list" /\ Len(out.news) > 0
       THEN [news |-> SubSeq(out.news, 1, Min(n, Len(out.news))),
             raised |-> FALSE, msgs |-> <<>>]
       ELSE [news |-> <<>>, raised |-> FALSE, msgs |-> <<>>]

GetStockNewsOffByOne(out, n) ==
  IF out.kind = "raise"
  THEN [news |-> <<>>, raised |-> FALSE, msgs |-> <<"error: fetching news">>]
  ELSE IF out.kind = "list" /\ Len(out.news) > 0
       THEN [news |-> SubSeq(out.news, 1, Min(n - 1, Len(out.news))),
             raised |-> FALSE, msgs |-> <<>>]
       ELSE [news |-> <<>>, raised |-> FALSE, msgs |-> <<>>]

GetStockNews(out, n) ==
  IF out.kind = "raise"
  THEN [news |-> <<>>, raised |-> FALSE, msgs |-> <<"error: fetching news">>]
  ELSE IF out.kind = "list" /\ Len(out.news) > 0
       THEN [news |-> SubSeq(out.news, 1, Min(n, Len(out.news))),
             raised |-> FALSE, msgs |-> <<>>]
       ELSE [news |-> <<>>, raised |-> FALSE, msgs |-> <<>>]

----------------------------------------------------------------------------
(* analyze_stock_news_sentiment, single-file app *)

NoTitleEmpty == <<>>

NoTitle == <<"No title">>

Blank == <<" ">>

Unknown == [str |-> "Unknown"]

HeadlineText(article) ==
  Get(article, "title", <<>>) \o Blank \o Get(article, "summary", <<>>)

MonoRow(article, memo, s) ==
  LET a == AnalyzeSentiment(memo, HeadlineText(article), s)
  IN [row |-> [title |-> Get(article, "title", NoTitle),
               publisher |-> Get(article, "publisher", "Unknown"),
               link |-> Get(article, "link", "#"),
               polarity |-> a.polarity,
               subjectivity |-> a.subjectivity,
               sentiment |-> a.sentiment,
               emoji |-> a.emoji,
               published |-> Get(article, "providerPublishTime", Unknown)],
      memo |-> a.memo]

MeanSkipsFirst(rows, col) == Fraction(SumColumn(Tail(rows), col), Len(rows))

MeanOf(rows, col) == Fraction(SumColumn(rows, col), Len(rows))

OverallInclusive(avg) ==
  IF avg.num >= PosThreshold * avg.den THEN "Positive"
  ELSE IF avg.num <= NegThreshold * avg.den THEN "Negative"
  ELSE "Neutral"

OverallSentiment(avg) ==
  IF avg.num > PosThreshold * avg.den THEN "Positive"
  ELSE IF avg.num < NegThreshold * avg.den THEN "Negative"
  ELSE "Neutral"

NaN == [nan |-> TRUE]

MonoEmptyResultNaN ==
  [avg_polarity |-> NaN, avg_subjectivity |-> NaN,
   overall_sentiment |-> "Neutral", news_df |-> <<>>]

MonoEmptyResult ==
  [avg_polarity |-> Float0, avg_subjectivity |-> Float0,
   overall_sentiment |-> "Neutral", news_df |-> <<>>]

MonoAggregate(rows) ==
  IF rows # <<>>
  THEN LET avg_polarity == MeanOf(rows, "polarity")
           avg_subjectivity == MeanOf(rows, "subjectivity")
       IN [avg_polarity |-> avg_polarity,
           avg_subjectivity |-> avg_subjectivity,
           overall_sentiment |-> OverallSentiment(avg_polarity),
           news_df |-> rows]
  ELSE [avg_polarity |-> Float0, avg_subjectivity |-> Float0,
        overall_sentiment |-> "Neutral", news_df |-> rows]

----------------------------------------------------------------------------
(* extract_article_text (app/scraper.py) *)

RECURSIVE JoinSpace(_)
JoinSpace(ts) ==
  IF ts = <<>> THEN <<>>
  ELSE IF Len(ts) = 1 THEN ts[1]
  ELSE ts[1] \o Blank \o JoinSpace(Tail(ts))

RECURSIVE CollapseSpaces(_)
CollapseSpaces(t) ==
  IF Len(t) < 2 THEN t
  ELSE IF t[1] = " " /\ t[2] = " " THEN CollapseSpaces(Tail(t))
  ELSE <<t[1]>> \o CollapseSpaces(Tail(t))

RECURSIVE Strip(_)
Strip(t) ==
  IF t = <<>> THEN t
  ELSE IF t[1] = " " THEN Strip(Tail(t))
  ELSE IF t[Len(t)] = " " THEN Strip(SubSeq(t, 1, Len(t) - 1))
  ELSE t

StatusOK == 200

WebResponses ==
  {[fault |-> "timeout", status |-> 0, paragraphs |-> <<>>],
   [fault |-> "parse", status |-> StatusOK, paragraphs |-> <<>>],
   [fault |-> "none", status |-> 404, paragraphs |-> <<<<"a">>>>],
   [fault |-> "none", status |-> StatusOK, paragraphs |-> <<>>],
   [fault |-> "none", status |-> StatusOK, paragraphs |-> <<<<" ", "b">>, <<" ", "a", " ">>>>]}

ExtractArticleTextUncaught(url, resp) ==
  IF resp.fault # "none"
  THEN [text |-> <<>>, raised |-> TRUE, msgs |-> <<>>]
  ELSE IF resp.status # StatusOK
  THEN [text |-> <<>>, raised |-> FALSE, msgs |-> <<"warning: could not extract">>]
  ELSE [text |-> Strip(CollapseSpaces(JoinSpace(resp.paragraphs))),
        raised |-> FALSE, msgs |-> <<>>]

ExtractArticleText(url, resp) ==
  IF resp.fault # "none"
  THEN [text |-> <<>>, raised |-> FALSE, msgs |-> <<"warning: could not extract">>]
  ELSE IF resp.status # StatusOK
  THEN [text |-> <<>>, raised |-> FALSE, msgs |-> <<"warning: could not extract">>]
  ELSE [text |-> Strip(CollapseSpaces(JoinSpace(resp.paragraphs))),
        raised |-> FALSE, msgs |-> <<>>]

----------------------------------------------------------------------------
(* process_article (app/data.py) *)

Placeholder == <<"Could not extract full article text.">>

Ellipsis == <<"...">>

DisplayLimit == 500

Truncate(t) ==
  IF Len(t) > DisplayLimit THEN SubSeq(t, 1, DisplayLimit) \o Ellipsis ELSE t

LinkOfDefaulted(article) == Get(article, "link", "#")

LinkOf(article) == Get(article, "link", "")

NoExtraction == [text |-> <<>>, raised |-> FALSE, msgs |-> <<>>]

ProcessArticle(article, memo, s1, s2, resp) ==
  LET h    == AnalyzeSentiment(memo, HeadlineText(article), s1)
      link == LinkOf(article)
      ex   == IF link # "" THEN ExtractArticleText(link, resp) ELSE NoExtraction
      got  == ex.text # <<>>
      f    == IF got THEN AnalyzeSentiment(h.memo, ex.text, s2) ELSE h
  IN [row |-> [title |-> Get(article, "title", NoTitle),
               publisher |-> Get(article, "publisher", "Unknown"),
               link |-> Get(article, "link", "#"),
               published |-> Get(article, "providerPublishTime", Unknown),
               headline_polarity |-> h.polarity,
               headline_subjectivity |-> h.subjectivity,
               headline_sentiment |-> h.sentiment,
               headline_emoji |-> h.emoji,
               full_text_polarity |-> f.polarity,
               full_text_subjectivity |-> f.subjectivity,
               full_text_sentiment |-> f.sentiment,
               full_text_emoji |-> f.emoji,
               article_text |-> IF got THEN Truncate(ex.text) ELSE Placeholder,
               raw_text |-> ex.text],
      fetched |-> IF link # ""
                  THEN <<[url |-> link, resp |-> resp, text |-> ex.text]>>
                  ELSE <<>>,
      raised |-> ex.raised,
      msgs |-> ex.msgs,
      memo |-> f.memo]

----------------------------------------------------------------------------
(* calculate_combined_sentiment (app/sentiment.py) and the modular
   analyze_stock_news_sentiment (app/data.py) *)

RECURSIVE Concatenate(_)
Concatenate(ts) == IF ts = <<>> THEN <<>> ELSE ts[1] \o Concatenate(Tail(ts))

CalculateCombinedNoSeparator(texts, memo, s) ==
  LET combined == Concatenate(texts)
  IN IF combined = <<>>
     THEN [value |-> None, memo |-> memo]
     ELSE LET c == AnalyzeSentiment(memo, combined, s)
          IN [value |-> [polarity |-> c.polarity,
                         subjectivity |-> c.subjectivity,
                         sentiment |-> c.sentiment,
                         emoji |-> c.emoji],
              memo |-> c.memo]

CalculateCombinedSentiment(texts, memo, s) ==
  LET combined == JoinSpace(texts)
  IN IF combined = <<>>
     THEN [value |-> None, memo |-> memo]
     ELSE LET c == AnalyzeSentiment(memo, combined, s)
          IN [value |-> [polarity |-> c.polarity,
                         subjectivity |-> c.subjectivity,
                         sentiment |-> c.sentiment,
                         emoji |-> c.emoji],
              memo |-> c.memo]

ModularEmptyResult ==
  [avg_polarity |-> Float0, avg_subjectivity |-> Float0,
   overall_sentiment |-> "Neutral", news_df |-> <<>>,
   combined_sentiment |-> None]

DropRawText(row) == [k \in DOMAIN row \ {"raw_text"} |-> row[k]]

ModularAggregate(rows, texts, memo, s) ==
  LET avg_polarity == MeanOf(rows, "full_text_polarity")
      avg_subjectivity == MeanOf(rows, "full_text_subjectivity")
      c == CalculateCombinedSentiment(texts, memo, s)
  IN [value |-> [avg_polarity |-> avg_polarity,
                 avg_subjectivity |-> avg_subjectivity,
                 overall_sentiment |-> OverallSentiment(avg_polarity),
                 news_df |-> [i \in 1..Len(rows) |-> DropRawText(rows[i])],
                 combined_sentiment |-> c.value],
      memo |-> c.memo]

----------------------------------------------------------------------------
(* The analysis run *)

Apps == {"mono", "modular"}

Init ==
  /\ app \in Apps
  /\ pc = "idle"
  /\ num_articles = 0
  /\ provider = None
  /\ news_articles = <<>>
  /\ idx = 0
  /\ results = <<>>
  /\ article_texts = <<>>
  /\ blob = <<>>
  /\ messages = <<>>
  /\ netCalls = <<>>
  /\ ret = None
  /\ text = <<>>
  /\ prev = None
  /\ stable = FALSE
  /\ ticker = <<>>
  /\ displayed = None
  /\ ss_ticker = <<>>
  /\ analysis_performed = FALSE
  /\ branch = "none"
  /\ button = FALSE
  /\ reruns = 0

(* analyze_stock_news_sentiment up to the loop: the call of get_stock_news
   and the early return on an empty list *)
CallAnalyze(n, out) ==
  /\ pc = "idle"
  /\ LET g == GetStockNews(out, n)
     IN /\ num_articles' = n
        /\ provider' = out
        /\ messages' = messages \o g.msgs
        /\ news_articles' = g.news
        /\ IF g.raised
           THEN pc' = "crashed" /\ ret' = ret /\ idx' = idx
           ELSE IF g.news = <<>>
           THEN /\ pc' = "done"
                /\ ret' = IF app = "mono" THEN MonoEmptyResult ELSE ModularEmptyResult
                /\ idx' = idx
           ELSE pc' = "loop" /\ ret' = ret /\ idx' = 1
  /\ UNCHANGED <<app, results, article_texts, blob, netCalls, text>>
  /\ UNCHANGED <<again, page>>

(* `for article in news_articles`: the article of the i-th iteration *)
ArticleAtReversed(news, i) == news[Len(news) + 1 - i]

ArticleAt(news, i) == news[i]

(* the answers TextBlob can give on t: the one it gave before, or any *)
Answers(memo, t) ==
  IF t \in DOMAIN memo THEN {memo[t]}
  ELSE IF t = <<>> THEN {[polarity |-> 0, subjectivity |-> 0]}
  ELSE IF stable THEN AgainScores
  ELSE RunScores

(* the responses the web can give to the extraction of an article *)
OtherResponses ==
  {[fault |-> "timeout", status |-> 0, paragraphs |-> <<>>],
   [fault |-> "none", status |-> StatusOK, paragraphs |-> <<<<"a">>>>]}

PagesOf(url) == IF url = "u2" THEN OtherResponses ELSE WebResponses

Responses(article) ==
  LET link == LinkOf(article)
      seen == {k \in 1..Len(netCalls) : netCalls[k].url = link}
  IN IF link = "" THEN {[fault |-> "none", status |-> 0, paragraphs |-> <<>>]}
     ELSE IF stable /\ seen # {} THEN {netCalls[CHOOSE k \in seen : TRUE].resp}
     ELSE IF stable THEN {r \in PagesOf(link) : r.fault = "timeout" \/ r.paragraphs # <<>>}
     ELSE PagesOf(link)

(* one iteration of `for article in news_articles` of the single-file app *)
MonoIteration ==
  /\ pc = "loop"
  /\ app = "mono"
  /\ idx <= Len(news_articles)
  /\ \E s \in Answers(blob, HeadlineText(ArticleAt(news_articles, idx))) :
       LET r == MonoRow(ArticleAt(news_articles, idx), blob, s)
       IN /\ results' = Append(results, r.row)
          /\ blob' = r.memo
  /\ idx' = idx + 1
  /\ UNCHANGED <<app, pc, num_articles, provider, news_articles, article_texts,
                 messages, netCalls, ret, text>>
  /\ UNCHANGED <<again, page>>

(* one iteration of the modular app's loop: process_article on the next
   article, its record appended, its raw text kept when there is one *)
ModularIteration ==
  /\ pc = "loop"
  /\ app = "modular"
  /\ idx <= Len(news_articles)
  /\ \E resp \in Responses(ArticleAt(news_articles, idx)) :
     \E s1 \in Answers(blob, HeadlineText(ArticleAt(news_articles, idx))) :
     \E s2 \in Answers(blob @@ (HeadlineText(ArticleAt(news_articles, idx)) :> s1),
                       ExtractArticleText("", resp).text) :
       LET r == ProcessArticle(ArticleAt(news_articles, idx), blob, s1, s2, resp)
       IN /\ netCalls' = netCalls \o r.fetched
          /\ messages' = messages \o r.msgs
          /\ IF r.raised
             THEN /\ pc' = "crashed"
                  /\ UNCHANGED <<results, article_texts, blob, idx>>
             ELSE /\ pc' = pc
                  /\ results' = Append(results, r.row)
                  /\ article_texts' = IF r.row.raw_text # <<>>
                                      THEN Append(article_texts, r.row.raw_text)
                                      ELSE article_texts
                  /\ blob' = r.memo
                  /\ idx' = idx + 1
  /\ UNCHANGED <<app, num_articles, provider, news_articles, ret, text>>
  /\ UNCHANGED <<again, page>>

(* after the loop: the table, the averages, the overall label, the return *)
MonoReturn ==
  /\ pc = "loop"
  /\ app = "mono"
  /\ idx > Len(news_articles)
  /\ ret' = MonoAggregate(results)
  /\ pc' = "done"
  /\ UNCHANGED <<app, num_articles, provider, news_articles, idx, results,
                 article_texts, blob, messages, netCalls, text>>
  /\ UNCHANGED <<again, page>>

ModularReturn ==
  /\ pc = "loop"
  /\ app = "modular"
  /\ idx > Len(news_articles)
  /\ \E s \in Answers(blob, JoinSpace(article_texts)) :
       LET r == ModularAggregate(results, article_texts, blob, s)
       IN ret' = r.value /\ blob' = r.memo
  /\ pc' = "done"
  /\ UNCHANGED <<app, num_articles, provider, news_articles, idx, results,
                 article_texts, messages, netCalls, text>>
  /\ UNCHANGED <<again, page>>

Next ==
  \/ \E n \in Counts, out \in ProviderOutcomes : CallAnalyze(n, out)
  \/ MonoIteration
  \/ ModularIteration
  \/ MonoReturn
  \/ ModularReturn

Spec == Init /\ [][Next]_vars

----------------------------------------------------------------------------
(* analyze_sentiment on its own: any text, any answer of TextBlob *)

InitScorer ==
  /\ app = "mono"
  /\ pc = "scorer"
  /\ num_articles = 0
  /\ provider = None
  /\ news_articles = <<>>
  /\ idx = 0
  /\ results = <<>>
  /\ article_texts = <<>>
  /\ blob = <<>>
  /\ messages = <<>>
  /\ netCalls = <<>>
  /\ ret = None
  /\ text \in Texts
  /\ prev = None
  /\ stable = FALSE
  /\ ticker = <<>>
  /\ displayed = None
  /\ ss_ticker = <<>>
  /\ analysis_performed = FALSE
  /\ branch = "none"
  /\ button = FALSE
  /\ reruns = 0

CallAnalyzeSentiment(s) ==
  /\ pc = "scorer"
  /\ LET a == AnalyzeSentiment(blob, text, s)
     IN /\ ret' = [polarity |-> a.polarity, subjectivity |-> a.subjectivity,
                   sentiment |-> a.sentiment, emoji |-> a.emoji]
        /\ blob' = a.memo
  /\ pc' = "scored"
  /\ UNCHANGED <<app, num_articles, provider, news_articles, idx, results,
                 article_texts, messages, netCalls, text>>
  /\ UNCHANGED <<again, page>>

NextScorer == \E s \in Scores : CallAnalyzeSentiment(s)

SpecScorer == InitScorer /\ [][NextScorer]_vars

----------------------------------------------------------------------------
(* analyze_stock_news_sentiment called twice on the same articles, the second
   time in another order, with a web that answers each URL as before *)

ArtOther == [title |-> <<"b">>, link |-> "u2", publisher |-> "AP"]

PermPool == {ArtFull, ArtOther, ArtBare}

PermOutcomes ==
  {[kind |-> "list", news |-> L] : L \in UNION {[1..k -> PermPool] : k \in 1..MaxPermNews}}

IsPermutation(a, b) ==
  /\ Len(a) = Len(b)
  /\ \E f \in Permutations(1..Len(a)) : \A i \in 1..Len(a) : a[i] = b[f[i]]

InitPerm ==
  /\ app \in Apps
  /\ pc = "idle"
  /\ num_articles = 0
  /\ provider = None
  /\ news_articles = <<>>
  /\ idx = 0
  /\ results = <<>>
  /\ article_texts = <<>>
  /\ blob = <<>>
  /\ messages = <<>>
  /\ netCalls = <<>>
  /\ ret = None
  /\ text = <<>>
  /\ prev = None
  /\ stable = TRUE
  /\ ticker = <<>>
  /\ displayed = None
  /\ ss_ticker = <<>>
  /\ analysis_performed = FALSE
  /\ branch = "none"
  /\ button = FALSE
  /\ reruns = 0

(* the first result is kept and the call starts afresh *)
AnalyzeAgain ==
  /\ pc = "done"
  /\ prev = None
  /\ prev' = [news |-> news_articles, results |-> results, ret |-> ret]
  /\ pc' = "idle"
  /\ news_articles' = <<>>
  /\ idx' = 0
  /\ results' = <<>>
  /\ article_texts' = <<>>
  /\ ret' = None
  /\ UNCHANGED <<app, num_articles, provider, blob, messages, netCalls, text,
                 stable, page>>

NextPerm ==
  \/ \E out \in PermOutcomes :
       /\ prev # None => IsPermutation(out.news, prev.news)
       /\ CallAnalyze(Len(out.news), out)
  \/ MonoIteration
  \/ ModularIteration
  \/ MonoReturn
  \/ ModularReturn
  \/ AnalyzeAgain

SpecPerm == InitPerm /\ [][NextPerm]_vars

----------------------------------------------------------------------------
(* perform_stock_news_analysis and the display of its result *)

TypedSymbols == {"a", "A", "b"}

MaxTickerLen == 2

TypedTickers == UNION {[1..k -> TypedSymbols] : k \in 0..MaxTickerLen}

UpperSymbol(c) == IF c = "a" THEN "A" ELSE IF c = "b" THEN "B" ELSE c

UpperIdentity(t) == t

(* str.upper() *)
Upper(t) == [i \in 1..Len(t) |-> UpperSymbol(t[i])]

(* `if not ticker` *)
TickerMissingIfNone(t) == FALSE

TickerMissing(t) == t = <<>>

(* `if news_df.empty` *)
NoNewsIfNone(df) == FALSE

NoNews(df) == df = <<>>

EmojiOf(sentiment) ==
  IF sentiment = "Positive" THEN "U+1F60A"
  ELSE IF sentiment = "Negative" THEN "U+1F620"
  ELSE "U+1F610"

(* display_article_details: the publisher line, the time formatted when it
   is an integer and shown as it is otherwise *)
PublisherLine(row) ==
  [publisher |-> row.publisher,
   pub_time |-> IF "int" \in DOMAIN row.published
                THEN [formatted |-> row.published.int]
                ELSE row.published]

(* the single-file app's article lines: the publisher, and the publish time
   only when it is a number *)
MonoArticleLines(row) ==
  [publisher |-> row.publisher,
   published |-> IF "int" \in DOMAIN row.published
                 THEN <<[formatted |-> row.published.int]>>
                 ELSE <<>>]

(* what the page shows of a result: the overall label with its emoji and,
   per article, the expander header and the publisher line; the stock
   information section and the formatting of the numbers are left out *)
Display(r, emojiColumn, lines) ==
  [overall |-> <<r.overall_sentiment, EmojiOf(r.overall_sentiment)>>,
   articles |-> [i \in 1..Len(r.news_df) |->
                   [header |-> <<r.news_df[i].title, r.news_df[i][emojiColumn]>>,
                    line |-> lines[i]]]]

MaxUINews == 1

UIOutcomes ==
  {[kind |-> "raise", news |-> <<>>], [kind |-> "none", news |-> <<>>]}
    \cup {[kind |-> "list", news |-> L] :
            L \in UNION {[1..k -> ArticlePool] : k \in 0..MaxUINews}}

InitUI ==
  /\ app \in Apps
  /\ pc = "page"
  /\ num_articles = 0
  /\ provider = None
  /\ news_articles = <<>>
  /\ idx = 0
  /\ results = <<>>
  /\ article_texts = <<>>
  /\ blob = <<>>
  /\ messages = <<>>
  /\ netCalls = <<>>
  /\ ret = None
  /\ text = <<>>
  /\ prev = None
  /\ stable = FALSE
  /\ ticker = <<>>
  /\ displayed = None
  /\ ss_ticker = <<>>
  /\ analysis_performed = FALSE
  /\ branch = "none"
  /\ button = FALSE
  /\ reruns = 0

(* the analyze button: the typed ticker upper-cased, then
   perform_stock_news_analysis up to its call of the aggregator *)
PerformStockNewsAnalysis(typed) ==
  /\ pc = "page"
  /\ ticker' = Upper(typed)
  /\ button' = TRUE
  /\ IF TickerMissing(Upper(typed))
     THEN /\ messages' = Append(messages, "warning: enter a ticker")
          /\ pc' = "returned"
     ELSE /\ messages' = messages
          /\ pc' = "idle"
  /\ UNCHANGED <<app, num_articles, provider, news_articles, idx, results,
                 article_texts, blob, netCalls, ret, text, again,
                 displayed, ss_ticker, analysis_performed, branch, reruns>>

(* the single-file app after the aggregator returned: the warning on an
   empty table, the results otherwise *)
MonoShowResults ==
  /\ pc = "done"
  /\ app = "mono"
  /\ IF NoNews(ret.news_df)
     THEN /\ messages' = Append(messages, "warning: no news articles found")
          /\ displayed' = displayed
     ELSE /\ messages' = messages
          /\ displayed' = Display(ret, "emoji",
                                [i \in 1..Len(ret.news_df) |-> MonoArticleLines(ret.news_df[i])])
  /\ pc' = "returned"
  /\ UNCHANGED <<app, num_articles, provider, news_articles, idx, results,
                 article_texts, blob, netCalls, ret, text, again,
                 ticker, ss_ticker, analysis_performed, branch, button, reruns>>

(* the modular app after the aggregator returned: the warning on an empty
   table, otherwise the result saved in the session state and displayed *)
ModularShowResults ==
  /\ pc = "done"
  /\ app = "modular"
  /\ IF NoNews(ret.news_df)
     THEN /\ messages' = Append(messages, "warning: no news articles found")
          /\ displayed' = displayed
          /\ analysis_performed' = analysis_performed
     ELSE /\ messages' = messages
          /\ displayed' = Display(ret, "full_text_emoji",
                                [i \in 1..Len(ret.news_df) |-> PublisherLine(ret.news_df[i])])
          /\ analysis_performed' = TRUE
  /\ pc' = "returned"
  /\ UNCHANGED <<app, num_articles, provider, news_articles, idx, results,
                 article_texts, blob, netCalls, ret, text, again,
                 ticker, ss_ticker, branch, button, reruns>>

NextUI ==
  \/ \E typed \in TypedTickers : PerformStockNewsAnalysis(typed)
  \/ \E n \in Counts, out \in UIOutcomes : CallAnalyze(n, out)
  \/ MonoIteration
  \/ ModularIteration
  \/ MonoReturn
  \/ ModularReturn
  \/ MonoShowResults
  \/ ModularShowResults

SpecUI == InitUI /\ [][NextUI]_vars

(* one provider record with any subset of its fields *)
AnyArticles == {[k \in S |-> ArtFull[k]] : S \in SUBSET DOMAIN ArtFull}

RecordOutcomes == {[kind |-> "list", news |-> <<a>>] : a \in AnyArticles}

NextRecord ==
  \/ \E typed \in TypedTickers : PerformStockNewsAnalysis(typed)
  \/ \E n \in Counts, out \in RecordOutcomes : CallAnalyze(n, out)
  \/ MonoIteration
  \/ ModularIteration
  \/ MonoReturn
  \/ ModularReturn
  \/ MonoShowResults
  \/ ModularShowResults

SpecRecord == InitUI /\ [][NextRecord]_vars

----------------------------------------------------------------------------
(* main() of the modular app (app/main.py), one run per page rerun *)

MaxReruns == 3

StoredTickerAlways(stored, t) == t

(* `if ticker: st.session_state.ticker = ticker` *)
StoredTicker(stored, t) == IF t # <<>> THEN t ELSE stored

(* `if analyze_button: ... elif analysis_performed and ticker: ...` *)
BranchOf(pressed, performed, stored) ==
  IF pressed THEN "analyze"
  ELSE IF performed /\ stored # <<>> THEN "saved"
  ELSE "none"

(* initialize_session_state: no ticker, no analysis yet *)
InitMain ==
  /\ app = "modular"
  /\ pc = "main"
  /\ num_articles = 0
  /\ provider = None
  /\ news_articles = <<>>
  /\ idx = 0
  /\ results = <<>>
  /\ article_texts = <<>>
  /\ blob = <<>>
  /\ messages = <<>>
  /\ netCalls = <<>>
  /\ ret = None
  /\ text = <<>>
  /\ prev = None
  /\ stable = FALSE
  /\ ticker = <<>>
  /\ displayed = None
  /\ ss_ticker = <<>>
  /\ analysis_performed = FALSE
  /\ branch = "none"
  /\ button = FALSE
  /\ reruns = 0

(* one rerun: the typed ticker upper-cased and stored when it is not empty,
   then the branch on the button and the saved analysis. The analysis of the
   analyze branch is reduced to its outcome: `found` says that it produced
   articles, and only then is the result saved in the session state. *)
MainRerun(typed, pressed, found) ==
  /\ pc = "main"
  /\ reruns < MaxReruns
  /\ reruns' = reruns + 1
  /\ ticker' = Upper(typed)
  /\ ss_ticker' = StoredTicker(ss_ticker, ticker')
  /\ button' = pressed
  /\ branch' = BranchOf(pressed, analysis_performed, ss_ticker')
  /\ analysis_performed' =
       IF pressed /\ ~TickerMissing(ticker') /\ found
       THEN TRUE ELSE analysis_performed
  /\ UNCHANGED <<app, pc, num_articles, provider, news_articles, idx, results,
                 article_texts, blob, messages, netCalls, ret, text, again,
                 displayed>>

NextMain == \E typed \in TypedTickers, pressed \in BOOLEAN, found \in BOOLEAN :
              MainRerun(typed, pressed, found)

SpecMain == InitMain /\ [][NextMain]_vars

----------------------------------------------------------------------------
(* Properties *)

IsBlankText(t) == \A i \in 1..Len(t) : t[i] = " "

\* C1: the label returned by analyze_sentiment is Positive exactly when the
\* polarity is above 0.1, Negative exactly when it is below -0.1 and Neutral
\* otherwise (0.1 and -0.1 themselves are Neutral), and the emoji is the one
\* of the label.
C1_ThresholdLabel ==
  pc = "scored" =>
    /\ (ret.sentiment = "Positive") <=> (ret.polarity > 10)
    /\ (ret.sentiment = "Negative") <=> (ret.polarity < -10)
    /\ (ret.sentiment = "Neutral") <=> (ret.polarity >= -10 /\ ret.polarity <= 10)
    /\ (ret.emoji = "U+1F60A") <=> (ret.sentiment = "Positive")
    /\ (ret.emoji = "U+1F620") <=> (ret.sentiment = "Negative")
    /\ (ret.emoji = "U+1F610") <=> (ret.sentiment = "Neutral")

C1_Witness ==
  pc = "scored" /\ ret.polarity = 10 /\ ret.sentiment = "Neutral"

\* C2 as stated: on an empty or whitespace-only text analyze_sentiment
\* returns 0.0, 0.0, Neutral and the neutral emoji without consulting
\* TextBlob.
C2_BlankIsNeutralWithoutModel ==
  (pc = "scored" /\ IsBlankText(text)) =>
    /\ ret = [polarity |-> 0, subjectivity |-> 0, sentiment |-> "Neutral",
              emoji |-> "U+1F610"]
    /\ text \notin DOMAIN blob

\* C2 amended: on the empty text analyze_sentiment returns 0.0, 0.0, Neutral
\* and the neutral emoji without consulting TextBlob; every other text, a
\* whitespace-only one included, is passed to TextBlob and the result
\* carries TextBlob's polarity and subjectivity.
C2_EmptyIsNeutralWithoutModel ==
  pc = "scored" =>
    /\ text = <<>> =>
         /\ ret = [polarity |-> 0, subjectivity |-> 0, sentiment |-> "Neutral",
                   emoji |-> "U+1F610"]
         /\ blob = <<>>
    /\ text # <<>> =>
         /\ DOMAIN blob = {text}
         /\ ret.polarity = blob[text].polarity
         /\ ret.subjectivity = blob[text].subjectivity

C2_Witness ==
  pc = "scored" /\ text = <<>> /\ ret.sentiment = "Neutral" /\ blob = <<>>

\* C3: when the fetcher yields no articles the run ends at once with averages
\* 0.0 and 0.0, label Neutral, an empty table and (modular app) no combined
\* sentiment; nothing is raised, the loop is not entered and no mean is
\* taken.
C3_EmptyFetchResult ==
  (pc # "idle" /\ news_articles = <<>>) =>
    /\ pc = "done"
    /\ ret.avg_polarity = [num |-> 0, den |-> 1]
    /\ ret.avg_subjectivity = [num |-> 0, den |-> 1]
    /\ ret.overall_sentiment = "Neutral"
    /\ ret.news_df = <<>>
    /\ app = "mono" => DOMAIN ret = {"avg_polarity", "avg_subjectivity",
                                     "overall_sentiment", "news_df"}
    /\ app = "modular" => ret.combined_sentiment = None
    /\ idx = 0 /\ results = <<>> /\ blob = <<>>

C3_Witness ==
  /\ pc = "done" /\ app = "mono"
  /\ provider.kind = "list" /\ provider.news = <<>>
  /\ ret.news_df = <<>>

\* C4: whenever the provider call raises, returns nothing or returns an empty
\* list, get_stock_news returns an empty list, nothing propagates, and the
\* run ends in the empty-result state.
C4_ProviderFailureContained ==
  (pc # "idle" /\ (provider.kind \in {"raise", "none"} \/ provider.news = <<>>)) =>
    /\ pc = "done"
    /\ news_articles = <<>>
    /\ ret.news_df = <<>>
    /\ ret.overall_sentiment = "Neutral"
    /\ ret.avg_polarity.num = 0 /\ ret.avg_subjectivity.num = 0

C4_Witness ==
  pc = "done" /\ provider.kind = "raise" /\ news_articles = <<>>

\* C5: for a provider list L and a count n, get_stock_news returns the first
\* min(n, Len(L)) items of L, in L's order and unaltered.
C5_FirstCountItems ==
  (pc # "idle" /\ provider.kind = "list") =>
    /\ Len(news_articles) = Min(num_articles, Len(provider.news))
    /\ \A i \in 1..Len(news_articles) : news_articles[i] = provider.news[i]

C5_Witness ==
  /\ pc = "done" /\ provider.kind = "list"
  /\ num_articles = 2 /\ Len(provider.news) = 3 /\ Len(news_articles) = 2
  /\ provider.news[1] # provider.news[2] /\ provider.news[2] # provider.news[3]
  /\ news_articles = <<provider.news[1], provider.news[2]>>

RECURSIVE TotalOf(_, _, _)
TotalOf(rows, col, k) ==
  IF k = 0 THEN 0 ELSE rows[k][col] + TotalOf(rows, col, k - 1)

PolarityColumn == IF app = "mono" THEN "polarity" ELSE "full_text_polarity"

SubjectivityColumn == IF app = "mono" THEN "subjectivity" ELSE "full_text_subjectivity"

LabelColumn == IF app = "mono" THEN "sentiment" ELSE "full_text_sentiment"

\* C6: after a run over K >= 1 articles the average polarity and the average
\* subjectivity are the sums of the K records' (full-text) polarity and
\* subjectivity divided by K, every record counted once.
C6_AverageIsMean ==
  (pc = "done" /\ news_articles # <<>>) =>
    LET K == Len(news_articles)
        df == ret.news_df
    IN /\ Len(df) = K
       /\ ret.avg_polarity.den > 0
       /\ ret.avg_polarity.num * K = ret.avg_polarity.den * TotalOf(df, PolarityColumn, K)
       /\ ret.avg_subjectivity.den > 0
       /\ ret.avg_subjectivity.num * K
            = ret.avg_subjectivity.den * TotalOf(df, SubjectivityColumn, K)

C6_Witness ==
  /\ pc = "done" /\ app = "modular" /\ Len(ret.news_df) = 3
  /\ \E i \in 1..3 : ret.news_df[i].article_text = <<"Could not extract full article text.">>
  /\ \E i \in 1..3 : ret.news_df[i].article_text = <<"b", " ", "a">>
  /\ ret.avg_polarity.den = 3

\* C7: the overall label is Positive exactly when the average polarity is
\* above 0.1, Negative exactly when it is below -0.1, Neutral otherwise.
C7_OverallLabelFromAverage ==
  (pc = "done" /\ news_articles # <<>>) =>
    LET avg == ret.avg_polarity
    IN /\ (ret.overall_sentiment = "Positive") <=> (avg.num > 10 * avg.den)
       /\ (ret.overall_sentiment = "Negative") <=> (avg.num < (-10) * avg.den)
       /\ (ret.overall_sentiment = "Neutral")
            <=> (avg.num >= (-10) * avg.den /\ avg.num <= 10 * avg.den)

C7_Witness ==
  /\ pc = "done" /\ Len(ret.news_df) >= 2
  /\ ret.overall_sentiment = "Neutral"
  /\ \A i \in 1..Len(ret.news_df) : ret.news_df[i][LabelColumn] # "Neutral"

\* C8: in the modular app an article without a link causes no extraction
\* call; its full-text score is its headline score (the score of title, a
\* blank, summary) in all four components and its display text is the
\* placeholder; the same holds whenever extraction gave no text.
C8_FallbackToHeadline ==
  app = "modular" =>
    /\ \A i \in 1..Len(results) :
         LET a == news_articles[i]
             r == results[i]
             headline == (IF "title" \in DOMAIN a THEN a.title ELSE <<>>)
                           \o <<" ">>
                           \o (IF "summary" \in DOMAIN a THEN a.summary ELSE <<>>)
         IN /\ r.headline_polarity = blob[headline].polarity
            /\ r.headline_subjectivity = blob[headline].subjectivity
            /\ "link" \notin DOMAIN a => r.raw_text = <<>>
            /\ r.raw_text = <<>> =>
                 /\ r.full_text_polarity = r.headline_polarity
                 /\ r.full_text_subjectivity = r.headline_subjectivity
                 /\ r.full_text_sentiment = r.headline_sentiment
                 /\ r.full_text_emoji = r.headline_emoji
                 /\ r.article_text = <<"Could not extract full article text.">>
    /\ Len(netCalls) <= Cardinality({i \in 1..Len(results) : "link" \in DOMAIN news_articles[i]})
    /\ \A k \in 1..Len(netCalls) :
         \E i \in 1..Len(news_articles) :
           "link" \in DOMAIN news_articles[i] /\ netCalls[k].url = news_articles[i].link

C8_Witness ==
  /\ app = "modular" /\ pc = "done"
  /\ \E i \in 1..Len(results) :
       /\ "link" \notin DOMAIN news_articles[i]
       /\ results[i].full_text_sentiment = "Positive"
       /\ results[i].article_text = <<"Could not extract full article text.">>
  /\ netCalls = <<>>

BelongsTo(r, a) ==
  /\ r.title = (IF "title" \in DOMAIN a THEN a.title ELSE <<"No title">>)
  /\ r.publisher = (IF "publisher" \in DOMAIN a THEN a.publisher ELSE "Unknown")
  /\ r.link = (IF "link" \in DOMAIN a THEN a.link ELSE "#")

C9_InOrder ==
  /\ pc # "crashed"
  /\ Len(results) <= Len(news_articles)
  /\ pc = "loop" => idx = Len(results) + 1
  /\ \A i \in 1..Len(results) : BelongsTo(results[i], news_articles[i])
  /\ (pc = "done" /\ news_articles # <<>>) =>
       /\ Len(ret.news_df) = Len(news_articles)
       /\ \A i \in 1..Len(news_articles) : BelongsTo(ret.news_df[i], news_articles[i])

C9_OneAtATime ==
  \/ results' = results
  \/ /\ Len(results') = Len(results) + 1
     /\ SubSeq(results', 1, Len(results)) = results

\* C9: the articles of a run are processed one at a time in fetch order and
\* no extraction failure stops the run: the records are always those of the
\* first articles fetched, in order, and the result holds one record per
\* fetched article, the i-th for the i-th article.
C9_SequentialComplete == []C9_InOrder /\ [][C9_OneAtATime]_vars

C9_Witness ==
  /\ app = "modular" /\ pc = "done" /\ Len(ret.news_df) = 3
  /\ \E k \in 1..Len(netCalls) : netCalls[k].resp.fault = "timeout"
  /\ \E k \in 1..Len(netCalls) : netCalls[k].text # <<>>
  /\ news_articles[1] # news_articles[2]

\* C10: extract_article_text raises nothing to its caller and returns the
\* empty text for every fetch that times out or fails, every parse that
\* fails and every status other than 200.
C10_ExtractorNeverRaises ==
  /\ pc # "crashed"
  /\ \A k \in 1..Len(netCalls) :
       (netCalls[k].resp.fault # "none" \/ netCalls[k].resp.status # 200)
         => netCalls[k].text = <<>>

C10_Witness ==
  /\ pc = "done" /\ Len(netCalls) = 3
  /\ netCalls[1].resp.fault = "timeout" /\ netCalls[1].text = <<>>
  /\ netCalls[2].resp.fault = "parse" /\ netCalls[2].text = <<>>
  /\ netCalls[3].resp.status = 404 /\ netCalls[3].text = <<>>

(* the raw texts of the first k records that have one, blank-separated *)
RECURSIVE RawJoined(_, _)
RawJoined(rows, k) ==
  IF k = 0 THEN <<>>
  ELSE LET before == RawJoined(rows, k - 1)
           t == rows[k].raw_text
       IN IF t = <<>> THEN before
          ELSE IF before = <<>> THEN t
          ELSE before \o <<" ">> \o t

\* C11: the combined sentiment of a run of the modular app is the score of
\* the extracted texts of the articles whose extraction gave text, joined
\* by blanks in processing order; articles that fell back to the headline
\* add nothing, and it is absent exactly when no article gave text.
C11_CombinedFromExtracted ==
  (app = "modular" /\ pc = "done" /\ news_articles # <<>>) =>
    LET combined == RawJoined(results, Len(results))
        c == ret.combined_sentiment
    IN /\ (c = None) <=> (\A i \in 1..Len(results) : results[i].raw_text = <<>>)
       /\ c # None =>
            /\ combined \in DOMAIN blob
            /\ c.polarity = blob[combined].polarity
            /\ c.subjectivity = blob[combined].subjectivity
            /\ (c.sentiment = "Positive") <=> (c.polarity > 10)
            /\ (c.sentiment = "Negative") <=> (c.polarity < -10)

C11_Witness ==
  /\ app = "modular" /\ pc = "done" /\ Len(results) = 3
  /\ results[1].raw_text # <<>>
  /\ results[2].raw_text = <<>> /\ results[2].article_text = <<"Could not extract full article text.">>
  /\ results[3].raw_text # <<>>
  /\ ret.combined_sentiment # None
  /\ ret.combined_sentiment.sentiment = "Negative"
  /\ ret.avg_polarity.num > 0

Present(article, key) == key \in DOMAIN article

\* C13: for a provider record with any subset of its fields absent, building
\* the result record does not fail; an absent title is "No title" in the
\* record and "" in the scored text, an absent summary is "" in the scored
\* text, an absent publisher is "Unknown", an absent link is "#", an absent
\* publish time is "Unknown"; present fields are copied unchanged, and the
\* article's display line shows the publisher and the time it was given.
C13_AbsentFieldsDefault ==
  /\ pc # "crashed"
  /\ \A i \in 1..Len(results) :
       LET a == news_articles[i]
           r == results[i]
           scored == (IF Present(a, "title") THEN a.title ELSE <<>>) \o <<" ">>
                       \o (IF Present(a, "summary") THEN a.summary ELSE <<>>)
       IN /\ r.title = (IF Present(a, "title") THEN a.title ELSE <<"No title">>)
          /\ r.publisher = (IF Present(a, "publisher") THEN a.publisher ELSE "Unknown")
          /\ r.link = (IF Present(a, "link") THEN a.link ELSE "#")
          /\ r.published = (IF Present(a, "providerPublishTime")
                            THEN a.providerPublishTime ELSE [str |-> "Unknown"])
          /\ scored \in DOMAIN blob
          /\ IF app = "mono"
             THEN r.polarity = blob[scored].polarity
             ELSE r.headline_polarity = blob[scored].polarity
  /\ displayed # None =>
       \A i \in 1..Len(displayed.articles) :
         LET a == news_articles[i]
             d == displayed.articles[i]
         IN /\ d.header[1] = (IF Present(a, "title") THEN a.title ELSE <<"No title">>)
            /\ d.line.publisher = (IF Present(a, "publisher") THEN a.publisher ELSE "Unknown")
            /\ app = "modular" =>
                 d.line.pub_time = (IF Present(a, "providerPublishTime")
                                    THEN [formatted |-> a.providerPublishTime.int]
                                    ELSE [str |-> "Unknown"])
            /\ app = "mono" =>
                 d.line.published = (IF Present(a, "providerPublishTime")
                                     THEN <<[formatted |-> a.providerPublishTime.int]>>
                                     ELSE <<>>)

C13_Witness ==
  /\ pc = "returned" /\ app = "modular"
  /\ news_articles = <<ArtBare>>
  /\ Len(results) = 1
  /\ results[1].title = <<"No title">> /\ results[1].link = "#"
  /\ results[1].publisher = "Unknown"
  /\ <<" ">> \in DOMAIN blob
  /\ displayed # None
  /\ displayed.articles[1].line.pub_time = [str |-> "Unknown"]

\* C14: with an empty ticker perform_stock_news_analysis warns and returns
\* without calling the fetcher or the aggregator and without displaying a
\* result; when the aggregator returns an empty table it warns and displays
\* no result.
C14_NoAnalysisWithoutTicker ==
  /\ (pc # "page" /\ ticker = <<>>) =>
       /\ pc = "returned"
       /\ provider = None /\ news_articles = <<>> /\ ret = None
       /\ displayed = None
       /\ messages = <<"warning: enter a ticker">>
  /\ (pc = "returned" /\ ticker # <<>> /\ ret.news_df = <<>>) =>
       /\ displayed = None
       /\ messages # <<>>
       /\ messages[Len(messages)] = "warning: no news articles found"
  /\ displayed # None => (ticker # <<>> /\ ret.news_df # <<>>)

C14_Witness ==
  /\ pc = "returned" /\ app = "mono" /\ ticker = <<>>
  /\ messages = <<"warning: enter a ticker">> /\ displayed = None

IsUpperCased(t) == \A i \in 1..Len(t) : t[i] \notin {"a", "b"}

C15_OnlyNonEmptyUpperInput ==
  /\ ss_ticker' # ss_ticker =>
       (ss_ticker' = ticker' /\ ticker' # <<>> /\ IsUpperCased(ticker'))
  /\ (reruns' # reruns /\ ticker' = <<>>) => ss_ticker' = ss_ticker

C15_SavedBranchGuard ==
  branch = "saved" => (~button /\ analysis_performed /\ ss_ticker # <<>>)

\* C15: over any sequence of reruns of main(), the stored ticker changes only
\* to the rerun's input, non-empty and upper-cased; a rerun with an empty
\* input leaves it unchanged; the saved-results branch is taken only when the
\* button was not pressed, analysis_performed is set and the stored ticker
\* is not empty.
C15_StoredTickerDiscipline ==
  [][C15_OnlyNonEmptyUpperInput]_vars /\ []C15_SavedBranchGuard

C15_Witness ==
  /\ pc = "main" /\ reruns >= 2
  /\ ticker = <<>> /\ ss_ticker = <<"B">>
  /\ branch = "saved" /\ ~button /\ analysis_performed

====
